---------------------------- MODULE Spec2Model ----------------------------
(***************************************************************************)
(* A model of manjaro-kernel-bundler: the catalogue of kernel presets and  *)
(* their bundles (db.py), bundle generation, selection and retention       *)
(* (bundle.py), the env-file parser (util.py) and the "bundle" command     *)
(* (__init__.py).                                                          *)
(*                                                                         *)
(* Time stamps (st_mtime) are counted in ticks, TicksPerSecond ticks to a  *)
(* second, so that floor() is a real rounding.  Texts are sequences of     *)
(* characters; the word BUILD_ID is one character of the alphabet.         *)
(***************************************************************************)
EXTENDS Integers, Sequences, FiniteSets, TLC

VARIABLES
    mtime,       \* st_mtime (ticks) of every input file, or NoFile
    hostOsRel,   \* the text of /etc/os-release
    presetFiles, \* presetFiles[p]: the text of /etc/mkinitcpio.d/<p>.preset
    sbFiles,     \* which of db.key, db.crt exist in the signing directory
    disk,        \* disk[p]: the files kernel-<n>.efi of <root>/<p>, by <n>
    fbdirs,      \* fbdirs[p]: the <n> whose directory <root>/<p>/kernel-<n> exists
    outdirs,     \* the presets whose directory <root>/<p> exists
    active,      \* the file <root>/kernel.efi, or NoFile
    db,          \* db[p]: the KernelPreset built by initialise(), or NotLoaded
    pc,          \* where the running command (or the harness) stands
    cursor,      \* main(): how many presets of the loop have been handled
    runNo,       \* how many times the "bundle" command has been started
    startMtime,  \* the input files' st_mtime when the current run began
    touched,     \* whether an input file had changed when the current run began
    prevDone,    \* whether the previous run of the command reached its end
    attempted,   \* presets whose generation went past the staleness check in this run
    handled,     \* presets whose loop body this run has entered
    report,      \* what the last library call did: its outcome and side effects
    curId,       \* harness: the last value computed for current_build_id
    readBack     \* harness: what KernelBundle.from_bundle made of the written .osrel

vars == << mtime, hostOsRel, presetFiles, sbFiles, disk, fbdirs, outdirs, active, db, pc, cursor,
           runNo, startMtime, touched, prevDone, attempted, handled, report, curId,
           readBack >>

-----------------------------------------------------------------------------
(* Bounds of the model *)

MaxTime == 6
TicksPerSecond == 2
MaxHostLen == 3
MaxRoundTripId == 11

-----------------------------------------------------------------------------
(* Values *)

None == "None"                     \* Python's None, where a name is expected
NoFile == [absent |-> TRUE]        \* no file at the path
NotLoaded == [loaded |-> FALSE]    \* no KernelPreset object yet
NoReport == [op |-> "none"]
NoStat == 0 - 1                    \* stat() finds no file
NoId == 0 - 1                      \* no number yet

\* what a call gives: a value, or the exception it raises
Returned(v) == [exc |-> None, val |-> v]
Raised(e) == [exc |-> e, val |-> 0]

Presets == {"linuxA", "linuxB"}

UCODE_FILE == <<"/boot/amd-ucode.img", "">>
CMDLINE_FILE == <<"/boot/cmdline.txt", "">>
PathKernel(p) == <<"ALL_kver", p>>
PathInitramfs(p) == <<"default_image", p>>

InputPaths ==
    {UCODE_FILE, CMDLINE_FILE} \cup {PathKernel(p) : p \in Presets}
                               \cup {PathInitramfs(p) : p \in Presets}

Times == 0..MaxTime

Max(S) == CHOOSE x \in S : \A y \in S : y <= x

-----------------------------------------------------------------------------
(* util.py: envfile_to_params, on texts as sequences of characters *)

ChEq == "="
ChQuote == "dquote"
ChNewline == "newline"
KeyBuildId == "BUILD_ID"
Digits == << "0", "1", "2", "3", "4", "5", "6", "7", "8", "9" >>
DigitSet == {Digits[i] : i \in 1..10}
OsRelChars == {"x", ChEq, ChQuote, ChNewline, "7", KeyBuildId}

RECURSIVE SplitOn(_, _)
\* str.split(sep): the parts between the separators, one more than the separators
SplitOn(s, sep) ==
    IF \A i \in 1..Len(s) : s[i] # sep
    THEN << s >>
    ELSE LET i == CHOOSE j \in 1..Len(s) :
                      s[j] = sep /\ \A k \in 1..(j - 1) : s[k] # sep
         IN  << SubSeq(s, 1, i - 1) >> \o SplitOn(SubSeq(s, i + 1, Len(s)), sep)

\* str.splitlines(): no line for an empty text, none after a final line break
SplitLines(s) ==
    IF s = << >> THEN << >>
    ELSE LET parts == SplitOn(s, ChNewline)
         IN  IF s[Len(s)] = ChNewline THEN SubSeq(parts, 1, Len(parts) - 1) ELSE parts

\* v[1:-1] if v.startswith('"') and v.endswith('"') else v
Unquote(v) ==
    IF Len(v) >= 1 /\ v[1] = ChQuote /\ v[Len(v)] = ChQuote
    THEN SubSeq(v, 2, Len(v) - 1)
    ELSE v

RECURSIVE ParamsOf(_, _)
\* the dict comprehension over the lines that split in two: a later key replaces
ParamsOf(lines, d) ==
    IF lines = << >> THEN d
    ELSE LET kv == SplitOn(Head(lines), ChEq)
             d2 == IF Len(kv) = 2
                   THEN [k \in DOMAIN d \cup {kv[1]} |->
                            IF k = kv[1] THEN Unquote(kv[2]) ELSE d[k]]
                   ELSE d
         IN  ParamsOf(Tail(lines), d2)

envfile_to_params(data) == ParamsOf(SplitLines(data), << >>)

-----------------------------------------------------------------------------
(* Decimal text of a number ("{0}".format(n)) and int(text) *)

RECURSIVE ToDecimal(_)
ToDecimal(n) ==
    IF n < 10 THEN << Digits[n + 1] >>
    ELSE ToDecimal(n \div 10) \o << Digits[(n % 10) + 1] >>

DigitValue(c) == (CHOOSE i \in 1..10 : Digits[i] = c) - 1

RECURSIVE DecimalValue(_)
DecimalValue(s) ==
    IF s = << >> THEN 0
    ELSE 10 * DecimalValue(SubSeq(s, 1, Len(s) - 1)) + DigitValue(s[Len(s)])

\* int(text): the number, or ValueError for a text that is no decimal number
ParseInt(s) ==
    IF s # << >> /\ \A i \in 1..Len(s) : s[i] \in DigitSet
    THEN Returned(DecimalValue(s))
    ELSE Raised("ValueError")

-----------------------------------------------------------------------------
(* bundle.py: the build identifier *)

FloorSeconds(t) == t \div TicksPerSecond

\* the same with the command-line file left out of the maximum
CurrentBuildIdNoCmdline(mt, p) ==
    FloorSeconds(Max({ mt[PathKernel(p)], mt[UCODE_FILE], mt[PathInitramfs(p)] }))

\* floor(max(stat(kernel), stat(ucode), stat(initramfs), stat(cmdline)))
CurrentBuildId(mt, p) ==
    FloorSeconds(Max({ mt[PathKernel(p)], mt[UCODE_FILE],
                       mt[PathInitramfs(p)], mt[CMDLINE_FILE] }))

\* the os-release text of a bundle: the host's text, then print('BUILD_ID="<id>"')
OsRelBlob(host, id) ==
    host \o << KeyBuildId, ChEq, ChQuote >> \o ToDecimal(id) \o << ChQuote, ChNewline >>

\* KernelBundle.from_bundle: int(params["BUILD_ID"]) of the dumped .osrel section
FromBundleBuildId(osrel) ==
    LET params == envfile_to_params(osrel)
    IN  IF << KeyBuildId >> \notin DOMAIN params THEN Raised("KeyError")
        ELSE ParseInt(params[<< KeyBuildId >>])


-----------------------------------------------------------------------------
(* Files of the EFI partition.  A file is its bytes, its st_mtime and, for a *)
(* bundle, the text of its .osrel section (NoSection: objcopy cannot dump). *)

MaxBytes == 2

NoSection == << "no .osrel section" >>
ByteSeqs == UNION { [1..k -> {0, 1}] : k \in 0..MaxBytes }
EmptyDir == [n \in {} |-> NoFile]
TestPreset == "linuxA"

\* the ESP tree as one value, for the operators that change it
World == [disk |-> disk, fbdirs |-> fbdirs, outdirs |-> outdirs, active |-> active]
InputsOf(p) == {PathKernel(p), UCODE_FILE, PathInitramfs(p), CMDLINE_FILE}

\* filecmp._sig: (file type, size, mtime); every file of the model is regular
StatSig(f) == << "S_IFREG", Len(f.bytes), f.mtime >>

\* filecmp.cmp(f1, f2) with its default shallow=True
FileCmp(f1, f2) ==
    IF StatSig(f1) = StatSig(f2) THEN TRUE
    ELSE IF Len(f1.bytes) # Len(f2.bytes) THEN FALSE
    ELSE f1.bytes = f2.bytes

\* KernelBundle.currently_used, for a bundle b = [name, build_id, preset] and
\* the tree w = [disk, fbdirs, outdirs, active]
BundleCurrentlyUsed(w, b) ==
    IF b.preset = None THEN Raised("RuntimeError")
    ELSE IF w.active # NoFile
         THEN IF b.name \in DOMAIN w.disk[b.preset]
              THEN Returned(FileCmp(w.active, w.disk[b.preset][b.name]))
              ELSE Raised("FileNotFoundError")
         ELSE Returned(FALSE)

-----------------------------------------------------------------------------
(* Values the variables take while a specification does not use them *)

\* preset descriptors that may lie in /etc/mkinitcpio.d
GoodDescriptor ==
    << "ALL_kver", ChEq, ChQuote, "x", ChQuote, ChNewline,
       "default_image", ChEq, ChQuote, "x", ChQuote, ChNewline >>
DescriptorTexts ==
    { GoodDescriptor,
      << "x", ChNewline, "default_image", ChEq, "x", ChNewline >>,
      << "ALL_kver", ChEq, "x", ChNewline >> }

WorldIdle ==
    /\ sbFiles = {}
    /\ disk = [p \in Presets |-> EmptyDir]
    /\ fbdirs = [p \in Presets |-> {}]
    /\ outdirs = {}
    /\ active = NoFile
    /\ db = [p \in Presets |-> NotLoaded]

ControlIdle ==
    /\ cursor = 0
    /\ runNo = 0
    /\ startMtime = [f \in InputPaths |-> 0]
    /\ touched = FALSE
    /\ prevDone = FALSE
    /\ attempted = {}
    /\ handled = {}
    /\ report = NoReport

InputsIdle ==
    /\ mtime = [f \in InputPaths |-> 0]
    /\ hostOsRel = << >>
    /\ presetFiles = [p \in Presets |-> GoodDescriptor]

world == << mtime, hostOsRel, presetFiles, sbFiles, disk, fbdirs, outdirs, active, db >>
world_files == << mtime, hostOsRel, presetFiles, sbFiles, disk, fbdirs, outdirs, active >>
control == << cursor, runNo, startMtime, touched, prevDone, attempted, handled >>

-----------------------------------------------------------------------------
(* The build identifier under changes of the input files *)

InitBuildId ==
    /\ mtime \in [InputPaths -> Times]
    /\ \A f \in InputPaths \ InputsOf(TestPreset) : mtime[f] = 0
    /\ hostOsRel = << >>
    /\ presetFiles = [p \in Presets |-> GoodDescriptor]
    /\ WorldIdle /\ ControlIdle
    /\ pc = "buildid"
    /\ curId = NoId
    /\ readBack = Raised("unread")

\* an input file is replaced or touched: its st_mtime becomes t
ModifyInput(f, t) ==
    /\ pc = "buildid"
    /\ t # mtime[f]
    /\ mtime' = [mtime EXCEPT ![f] = t]
    /\ UNCHANGED << hostOsRel, presetFiles, sbFiles, disk, fbdirs, outdirs, active,
                    db, pc, control, report, curId, readBack >>

\* bundle.py 22-27: the identifier is computed from the four files
ComputeBuildId ==
    /\ pc = "buildid"
    /\ curId' = CurrentBuildId(mtime, TestPreset)
    /\ UNCHANGED << world, pc, control, report, readBack >>

NextBuildId ==
    \/ \E f \in InputsOf(TestPreset), t \in Times : ModifyInput(f, t)
    \/ ComputeBuildId

SpecBuildId == InitBuildId /\ [][NextBuildId]_vars

-----------------------------------------------------------------------------
(* The os-release section written by the generator, read back by from_bundle *)

TextsUpTo(n) == UNION { [1..k -> OsRelChars] : k \in 0..n }

\* the bundle file kernel-<id>.efi as the generator writes it for preset p
NewBundleFile(p, id, host, t) ==
    [bytes |-> << p, id >>, mtime |-> t, osrel |-> OsRelBlob(host, id)]

PutFile(dir, n, f) == [m \in DOMAIN dir \cup {n} |-> IF m = n THEN f ELSE dir[m]]

InitRoundTrip ==
    /\ mtime = [f \in InputPaths |-> 0]
    /\ hostOsRel \in TextsUpTo(MaxHostLen)
    /\ presetFiles = [p \in Presets |-> GoodDescriptor]
    /\ WorldIdle /\ ControlIdle
    /\ pc = "osrel.write"
    /\ curId \in 0..MaxRoundTripId
    /\ readBack = Raised("unread")

\* bundle.py 50-55 and 83-91: the section goes into kernel-<curId>.efi
WriteOsRel ==
    /\ pc = "osrel.write"
    /\ disk' = [disk EXCEPT ![TestPreset] =
                   PutFile(@, curId, NewBundleFile(TestPreset, curId, hostOsRel, 0))]
    /\ pc' = "osrel.read"
    /\ UNCHANGED << mtime, hostOsRel, presetFiles, sbFiles, fbdirs, outdirs, active,
                    db, control, report, curId, readBack >>

\* db.py 100-105: the section is dumped, parsed, and BUILD_ID made a number
ReadOsRel ==
    /\ pc = "osrel.read"
    /\ readBack' = FromBundleBuildId(disk[TestPreset][curId].osrel)
    /\ pc' = "osrel.done"
    /\ UNCHANGED << world, control, report, curId >>

NextRoundTrip == WriteOsRel \/ ReadOsRel

SpecRoundTrip == InitRoundTrip /\ [][NextRoundTrip]_vars

-----------------------------------------------------------------------------
(* KernelBundle.currently_used on one bundle and an arbitrary active file *)

CmpFiles == [bytes : ByteSeqs, mtime : Times, osrel : {NoSection}]

InitCmp ==
    /\ InputsIdle
    /\ sbFiles = {}
    /\ \E f \in CmpFiles :
          disk = [p \in Presets |-> IF p = TestPreset THEN PutFile(EmptyDir, 0, f)
                                    ELSE EmptyDir]
    /\ fbdirs = [p \in Presets |-> {}]
    /\ outdirs = {TestPreset}
    /\ active \in CmpFiles \cup {NoFile}
    /\ db = [p \in Presets |-> NotLoaded]
    /\ ControlIdle
    /\ pc = "cmp"
    /\ curId = NoId
    /\ readBack = Raised("unread")

\* db.py 76-86, asked of the bundle kernel-0.efi with or without its preset
CheckCurrentlyUsed(owner) ==
    /\ pc = "cmp"
    /\ report' = [op |-> "currently_used", preset |-> owner,
                  ret |-> BundleCurrentlyUsed(World, [name |-> 0, build_id |-> 0,
                                                      preset |-> owner])]
    /\ pc' = "cmp.done"
    /\ UNCHANGED << world, control, curId, readBack >>

NextCmp == \E owner \in {TestPreset, None} : CheckCurrentlyUsed(owner)

SpecCmp == InitCmp /\ [][NextCmp]_vars

-----------------------------------------------------------------------------
(* db.py: the catalogue.  A KernelBundle is [name, build_id, preset], its    *)
(* name kernel-<n>.efi kept as the number <n>; a KernelPreset is             *)
(* [name, bundles, path_kernel, path_initramfs].                             *)

MaxWriteTime == 1

NoBundle == [absent |-> TRUE]
WriteTimes == 0..MaxWriteTime
ScanOrder == << "linuxA", "linuxB" >>     \* the order scandir lists the presets in

\* what objcopy --dump-section may do with a file of the partition
DumpOutcomes == {"ok", "exit-1"}

\* KernelBundle.from_bundle(path) for the file kernel-<n>.efi of directory dir
FromBundle(dir, n, dump) ==
    IF n \notin DOMAIN dir THEN Raised("ValueError")
    ELSE IF dump # "ok" \/ dir[n].osrel = NoSection THEN Raised("CalledProcessError")
    ELSE LET id == FromBundleBuildId(dir[n].osrel)
         IN  IF id.exc # None THEN id
             ELSE Returned([name |-> n, build_id |-> id.val, preset |-> None])

\* a sort that puts the newest bundle first
SortedByBuildIdDescending(S) ==
    { q \in [1..Cardinality(S) -> S] :
        /\ \A i, j \in 1..Cardinality(S) : i < j =>
              (q[i] # q[j] /\ q[i].build_id >= q[j].build_id) }

\* sorted(..., key=build_id) of a set of bundles: every order scandir and the
\* stable sort can give
SortedByBuildId(S) ==
    { q \in [1..Cardinality(S) -> S] :
        /\ \A i, j \in 1..Cardinality(S) : i < j =>
              (q[i] # q[j] /\ q[i].build_id <= q[j].build_id) }

\* KernelPreset.__init__: every bundle handed in gets the preset as its owner
NewPreset(p, bundles, kernel, initramfs) ==
    [name |-> p,
     bundles |-> [i \in 1..Len(bundles) |-> [bundles[i] EXCEPT !.preset = p]],
     path_kernel |-> kernel, path_initramfs |-> initramfs]

\* the sort without the key: the bundles in the order of their file names
SortedByName(S) ==
    { q \in [1..Cardinality(S) -> S] :
        \A i, j \in 1..Cardinality(S) : i < j => q[i].name < q[j].name }

\* KernelPreset.from_preset(name, root): the presets it can return, or the
\* exception it raises
FromPreset(w, p, descriptor, dump) ==
    LET params == envfile_to_params(descriptor)
        dir == w.disk[p]
        read == [n \in DOMAIN dir |-> FromBundle(dir, n, dump)]
    IN  IF << "ALL_kver" >> \notin DOMAIN params THEN {Raised("KeyError")}
        ELSE IF << "default_image" >> \notin DOMAIN params THEN {Raised("KeyError")}
        ELSE IF p \notin w.outdirs
             THEN {Returned(NewPreset(p, << >>, PathKernel(p), PathInitramfs(p)))}
        ELSE IF \E n \in DOMAIN dir : read[n].exc # None
             THEN {Raised(read[n].exc) : n \in {m \in DOMAIN dir : read[m].exc # None}}
        ELSE { Returned(NewPreset(p, q, PathKernel(p), PathInitramfs(p))) :
                 q \in SortedByBuildId({read[n].val : n \in DOMAIN dir}) }

\* KernelPreset.last_build_id (None is NoId)
LastBuildId(ps) ==
    IF Len(ps.bundles) = 0 THEN NoId
    ELSE Max({ps.bundles[i].build_id : i \in 1..Len(ps.bundles)})

\* KernelBundle.path_fallback of bundle b in the tree w: the directory, or None
HasFallback(w, b) == b.name \in w.fbdirs[b.preset]

\* KernelPreset.currently_used: any(x.currently_used for x in self.bundles),
\* evaluated bundle by bundle until the first that is used (or that raises)
RECURSIVE AnyCurrentlyUsed(_, _, _)
AnyCurrentlyUsed(w, bundles, i) ==
    IF i > Len(bundles) THEN Returned(FALSE)
    ELSE LET u == BundleCurrentlyUsed(w, bundles[i])
         IN  IF u.exc # None THEN u
             ELSE IF u.val THEN u
             ELSE AnyCurrentlyUsed(w, bundles, i + 1)

PresetCurrentlyUsed(w, ps) == AnyCurrentlyUsed(w, ps.bundles, 1)

-----------------------------------------------------------------------------
(* bundle.py: generation *)

MimeOutcomes == {"application/octet-stream", "application/gzip", "text/plain", "exit-1"}
SupportedMime == {"application/octet-stream", "application/gzip"}
ScratchFiles == {"cmdline", "osrel", "initrd", "bundle"}
NotAPath == "True"                  \* the value main() hands over as sb_dir
SbDir == "/etc/secureboot"          \* a caller's signing directory
SbFileNames == {"db.key", "db.crt"}

\* what the environment answers during one call of generate_bundle_for_preset
GenEnvs ==
    [ucode : MimeOutcomes, initramfs : MimeOutcomes, objcopy : {"ok", "exit-1"},
     sbsign : {"ok", "exit-1", "exit-1 after creating its output"},
     copyfile : {"ok", "OSError after creating its output"}, now : WriteTimes]

\* one environment for each course a call can take: what is not asked for
\* after a failure is fixed
GenCourses ==
    { e \in GenEnvs :
        /\ e.ucode \notin SupportedMime => e.initramfs = "application/octet-stream"
        /\ (e.ucode \notin SupportedMime \/ e.initramfs \notin SupportedMime)
              => e.objcopy = "ok"
        /\ (e.ucode \notin SupportedMime \/ e.initramfs \notin SupportedMime
              \/ e.objcopy # "ok") => (e.sbsign = "ok" /\ e.copyfile = "ok" /\ e.now = 0)
        /\ e.sbsign = "ok" \/ e.copyfile = "ok" }

WithFile(w, p, n, f) == [w EXCEPT !.disk[p] = PutFile(@, n, f)]

SignedFile(p, id, host, t) ==
    [bytes |-> << p, id, "signed" >>, mtime |-> t, osrel |-> OsRelBlob(host, id)]
PartialFile(p, id, t) ==
    [bytes |-> << p, id, "partial" >>, mtime |-> t, osrel |-> NoSection]

\* generate_fallback_for_preset: makedirs() of kernel-<id>, then the copies and
\* launch.nsh (get_mountpoint_for, imported from util, is taken to return)
GenerateFallback(w, p, id) ==
    IF id \in w.fbdirs[p] THEN [exc |-> "FileExistsError", w |-> w]
    ELSE [exc |-> None, w |-> [w EXCEPT !.fbdirs[p] = @ \cup {id}]]

\* a staleness test that regenerates when the identifiers are equal
UpToDateOnlyWhenNewer(last, cur) == last # NoId /\ last > cur

\* the staleness test of bundle.py 29: skip when the last identifier is not older
UpToDate(last, cur) == last # NoId /\ last >= cur

\* the signing step, bundle.py 100-118, on the tree w after objcopy succeeded
SignOrCopy(w, p, id, sb, keys, host, env) ==
    IF sb = NotAPath THEN [exc |-> "TypeError", w |-> w, tools |-> << >>, warned |-> FALSE]
    ELSE IF SbFileNames \subseteq keys
    THEN IF env.sbsign = "ok"
         THEN [exc |-> None, w |-> WithFile(w, p, id, SignedFile(p, id, host, env.now)),
               tools |-> << "sbsign" >>, warned |-> FALSE]
         ELSE IF env.sbsign = "exit-1"
         THEN [exc |-> "CalledProcessError", w |-> w,
               tools |-> << "sbsign" >>, warned |-> FALSE]
         ELSE [exc |-> "CalledProcessError",
               w |-> WithFile(w, p, id, PartialFile(p, id, env.now)),
               tools |-> << "sbsign" >>, warned |-> FALSE]
    ELSE IF env.copyfile = "ok"
    THEN [exc |-> None, w |-> WithFile(w, p, id, NewBundleFile(p, id, host, env.now)),
          tools |-> << >>, warned |-> TRUE]
    ELSE [exc |-> "OSError", w |-> WithFile(w, p, id, PartialFile(p, id, env.now)),
          tools |-> << >>, warned |-> TRUE]

\* NamedTemporaryFile.close() with the default delete=True: the file is removed
CloseTemp(open, f) == open \ {f}

\* an __exit__ that closes the text files only
TempFileMapExitTextOnly(open) == open \ {"cmdline", "osrel"}

\* the order of TempFileMap._tmpfiles.values(): that of the keyword arguments
ScratchOrder == << "cmdline", "osrel", "initrd", "bundle" >>

RECURSIVE CloseEach(_, _, _)
CloseEach(open, order, i) ==
    IF i > Len(order) THEN open
    ELSE CloseEach(CloseTemp(open, order[i]), order, i + 1)

\* TempFileMap.__exit__, util.py 63-65, run by the with statement however its
\* body ends: every file of the map is closed
TempFileMapExit(open) == CloseEach(open, ScratchOrder, 1)

\* the section dump file of KernelBundle.from_bundle, db.py 100-103: made once
\* the path is known to be a file, closed when the with statement is left
FromBundleScratch(dir, n) ==
    IF n \notin DOMAIN dir THEN [made |-> {}, left |-> {}]
    ELSE [made |-> {<< "osrel dump", n >>},
          left |-> CloseTemp({<< "osrel dump", n >>}, << "osrel dump", n >>)]

\* the dump files of one from_preset call that reads every file of the directory
FromPresetScratch(w, p) ==
    IF p \notin w.outdirs THEN [made |-> {}, left |-> {}]
    ELSE [made |-> UNION {FromBundleScratch(w.disk[p], n).made : n \in DOMAIN w.disk[p]},
          left |-> UNION {FromBundleScratch(w.disk[p], n).left : n \in DOMAIN w.disk[p]}]

\* a test of the input files that looks at the kernel only
StatFailsKernelOnly(mt, ps) == mt[ps.path_kernel] = NoStat

\* the four stat() calls of bundle.py 20-25: one of them raises
\* FileNotFoundError when its file does not exist
StatFails(mt, ps) ==
    NoStat \in { mt[ps.path_kernel], mt[UCODE_FILE],
                 mt[ps.path_initramfs], mt[CMDLINE_FILE] }

\* generate_bundle_for_preset(preset, sb_dir, generate_fallback): what the call
\* leaves behind.  exc: the exception raised (None: it returned); ret: the new
\* KernelBundle (NoBundle: it returned None); w: the tree afterwards; tools: the
\* programs run; tmpMade, tmpLeft: scratch files created and still there.
GenerateBundle(w, ps, sb, fall, mt, host, keys, env) ==
    LET p == ps.name
        last == LastBuildId(ps)
        none == [op |-> "generate", preset |-> p, exc |-> None, ret |-> NoBundle,
                 cur |-> NoId, last |-> last, attempted |-> FALSE, w |-> w,
                 tools |-> << >>, tmpMade |-> {}, tmpLeft |-> {}, warned |-> FALSE,
                 embedded |-> FALSE, stage |-> "stat", sb |-> sb, keys |-> keys,
                 fall |-> fall, before |-> w]
    IN  IF StatFails(mt, ps)
        THEN [none EXCEPT !.exc = "FileNotFoundError"]
        ELSE
        LET cur == CurrentBuildId(mt, p)
            go == [none EXCEPT !.cur = cur, !.attempted = TRUE, !.tmpMade = ScratchFiles,
                               !.tmpLeft = TempFileMapExit(ScratchFiles)]
            made == [w EXCEPT !.outdirs = @ \cup {p}]
            sign == SignOrCopy(made, p, cur, sb, keys, host, env)
            fb == IF fall THEN GenerateFallback(sign.w, p, cur)
                  ELSE [exc |-> None, w |-> sign.w]
        IN  IF UpToDate(last, cur) THEN [none EXCEPT !.cur = cur, !.stage = "up to date"]
            ELSE IF env.ucode = "exit-1"
            THEN [go EXCEPT !.exc = "CalledProcessError", !.stage = "mime",
                            !.tools = << "file" >>]
            ELSE IF env.ucode \notin SupportedMime
            THEN [go EXCEPT !.exc = "Exception", !.stage = "mime",
                            !.tools = << "file" >>]
            ELSE IF env.initramfs = "exit-1"
            THEN [go EXCEPT !.exc = "CalledProcessError", !.stage = "mime",
                            !.tools = << "file", "file" >>]
            ELSE IF env.initramfs \notin SupportedMime
            THEN [go EXCEPT !.exc = "Exception", !.stage = "mime",
                            !.tools = << "file", "file" >>]
            ELSE IF env.objcopy # "ok"
            THEN [go EXCEPT !.exc = "CalledProcessError", !.stage = "objcopy",
                            !.w = made, !.tools = << "file", "file", "objcopy" >>]
            ELSE IF sign.exc # None
            THEN [go EXCEPT !.exc = sign.exc, !.stage = "sign", !.w = sign.w,
                            !.embedded = TRUE, !.warned = sign.warned,
                            !.tools = << "file", "file", "objcopy" >> \o sign.tools]
            ELSE IF fb.exc # None
            THEN [go EXCEPT !.exc = fb.exc, !.stage = "fallback", !.w = fb.w,
                            !.embedded = TRUE, !.warned = sign.warned,
                            !.tools = << "file", "file", "objcopy" >> \o sign.tools]
            ELSE [go EXCEPT !.stage = "done", !.w = fb.w, !.embedded = TRUE,
                            !.warned = sign.warned,
                            !.tools = << "file", "file", "objcopy" >> \o sign.tools,
                            !.ret = [name |-> cur, build_id |-> cur, preset |-> None]]

-----------------------------------------------------------------------------
(* bundle.py: selection and retention *)

\* make_currently_used(preset): the newest bundle is copied over kernel.efi
MakeCurrentlyUsed(w, ps, now) ==
    IF Len(ps.bundles) = 0 THEN [exc |-> None, w |-> w]
    ELSE LET latest == ps.bundles[Len(ps.bundles)]
         IN  IF latest.preset = None THEN [exc |-> "RuntimeError", w |-> w]
             ELSE IF latest.name \notin DOMAIN w.disk[latest.preset]
             THEN [exc |-> "FileNotFoundError", w |-> w]
             ELSE [exc |-> None,
                   w |-> [w EXCEPT !.active =
                             [w.disk[latest.preset][latest.name] EXCEPT !.mtime = now]]]

\* Python's s[:-k] and s[-k:] for k >= 0 and Len(s) > k (for k = 0 these are
\* s[:0], the empty list, and s[0:], the whole list)
SliceBeforeLast(s, k) == IF k = 0 THEN << >> ELSE SubSeq(s, 1, Len(s) - k)
SliceLast(s, k) == IF k = 0 THEN s ELSE SubSeq(s, Len(s) - k + 1, Len(s))

RemoveFile(w, p, n) ==
    [w EXCEPT !.disk[p] = [m \in DOMAIN @ \ {n} |-> @[m]]]
RemoveTree(w, p, n) == [w EXCEPT !.fbdirs[p] = @ \ {n}]

\* the deletion loop of bundle.py 177-180 from bundle i on; failAt names the
\* call the file system refuses: <<i, "remove">> or <<i, "rmtree">>
RECURSIVE DeleteLoop(_, _, _, _)
DeleteLoop(w, victims, i, failAt) ==
    IF i > Len(victims) THEN [exc |-> None, w |-> w]
    ELSE LET b == victims[i]
         IN  IF b.preset = None THEN [exc |-> "RuntimeError", w |-> w]
             ELSE IF b.name \notin DOMAIN w.disk[b.preset]
             THEN [exc |-> "FileNotFoundError", w |-> w]
             ELSE IF failAt = << i, "remove" >> THEN [exc |-> "OSError", w |-> w]
             ELSE LET w1 == RemoveFile(w, b.preset, b.name)
                  IN  IF ~HasFallback(w1, b) THEN DeleteLoop(w1, victims, i + 1, failAt)
                      ELSE IF failAt = << i, "rmtree" >>
                      THEN [exc |-> "OSError", w |-> w1]
                      ELSE DeleteLoop(RemoveTree(w1, b.preset, b.name),
                                      victims, i + 1, failAt)

\* delete_old_bundles(preset, number_to_keep): the preset's new list, the tree,
\* and the exception raised, if any
DeleteOldBundles(w, ps, keep, failAt) ==
    IF Len(ps.bundles) > keep
    THEN LET victims == SliceBeforeLast(ps.bundles, keep)
             kept == SliceLast(ps.bundles, keep)
             done == DeleteLoop(w, victims, 1, failAt)
         IN  [exc |-> done.exc, w |-> done.w, ps |-> [ps EXCEPT !.bundles = kept]]
    ELSE [exc |-> None, w |-> w, ps |-> ps]

-----------------------------------------------------------------------------
(* __init__.py: the "bundle" command, run up to MaxRuns times on one machine *)

MaxRuns == 2
MaxDiskId == 1
RetentionKeep == 3

NoFail == << 0, "none" >>
FailPoints(n) == {NoFail} \cup ((1..n) \X {"remove", "rmtree"})

GoodHostText == << "x", ChEq, "7", ChNewline >>

\* a file of a preset's directory that carries no BUILD_ID
ForeignFile(p, n) ==
    [bytes |-> << p, n, "foreign" >>, mtime |-> 0, osrel |-> << "x", ChEq, "7", ChNewline >>]

\* a preset's directory holding the bundles kernel-<n>.efi, n in S
BundleDir(p, S) == [n \in S |-> NewBundleFile(p, n, GoodHostText, 0)]

\* the directories a preset may have when the command is first run: up to
\* MaxDiskId + 1 files, or one bundle more than main() keeps
DirStates(p) ==
    UNION { { [n \in S |-> IF n \in bad THEN ForeignFile(p, n)
                           ELSE NewBundleFile(p, n, GoodHostText, 0)] :
              bad \in SUBSET S } : S \in SUBSET (0..MaxDiskId) }
      \cup {BundleDir(p, 0..RetentionKeep)}

Init ==
    /\ \E f \in InputPaths, t \in {0, MaxTime, NoStat} :
          mtime = [g \in InputPaths |-> IF g = f THEN t ELSE 0]
    /\ hostOsRel = GoodHostText
    /\ presetFiles \in [Presets -> DescriptorTexts]
    /\ sbFiles = {}
    /\ disk \in [Presets -> UNION {DirStates(p) : p \in Presets}]
    /\ \A p \in Presets : disk[p] \in DirStates(p)
    /\ Cardinality({p \in Presets : presetFiles[p] # GoodDescriptor}) +
       Cardinality({pn \in Presets \X (0..RetentionKeep) :
                      /\ pn[2] \in DOMAIN disk[pn[1]]
                      /\ disk[pn[1]][pn[2]] = ForeignFile(pn[1], pn[2])}) <= 1
    /\ fbdirs = [p \in Presets |-> DOMAIN disk[p]]
    /\ outdirs = {p \in Presets : DOMAIN disk[p] # {}}
    /\ active = NoFile
    /\ db = [p \in Presets |-> NotLoaded]
    /\ pc = "shell"
    /\ cursor = 0
    /\ runNo = 0
    /\ startMtime = mtime
    /\ touched = FALSE
    /\ prevDone = FALSE
    /\ attempted = {}
    /\ handled = {}
    /\ report = NoReport
    /\ curId = NoId
    /\ readBack = Raised("unread")

\* the operator starts the command: main() up to db = initialise(params.root)
StartRun ==
    /\ pc \in {"shell", "exit 0"}
    /\ runNo < MaxRuns
    /\ runNo' = runNo + 1
    /\ prevDone' = (pc = "exit 0")
    /\ pc' = "initialise"
    /\ cursor' = 0
    /\ db' = [p \in Presets |-> NotLoaded]
    /\ attempted' = {}
    /\ handled' = {}
    /\ report' = NoReport
    /\ startMtime' = mtime
    /\ touched' = (runNo >= 1 /\ mtime # startMtime)
    /\ UNCHANGED << world_files, curId, readBack >>

\* between two runs an input file is modified
Touch(f, t) ==
    /\ pc = "exit 0"
    /\ mtime = startMtime
    /\ mtime[f] # NoStat
    /\ t > mtime[f]
    /\ mtime' = [mtime EXCEPT ![f] = t]
    /\ UNCHANGED << hostOsRel, presetFiles, sbFiles, disk, fbdirs, outdirs, active,
                    db, pc, control, report, curId, readBack >>

\* initialise(): one turn of its loop, KernelPreset.from_preset for the next
\* preset file; an exception leaves main() with a traceback
InitialiseStep ==
    /\ pc = "initialise"
    /\ LET p == ScanOrder[cursor + 1]
           last == (cursor + 1 = Len(ScanOrder))
       IN  \E dump \in DumpOutcomes :
           \E r \in FromPreset(World, p, presetFiles[p], dump) :
              /\ report' = [op |-> "from_preset", preset |-> p, exc |-> r.exc]
              /\ IF r.exc # None
                 THEN /\ pc' = "traceback"
                      /\ UNCHANGED << db, cursor >>
                 ELSE /\ db' = [db EXCEPT ![p] = r.val]
                      /\ cursor' = IF last THEN 0 ELSE cursor + 1
                      /\ pc' = IF last THEN "loop" ELSE "initialise"
    /\ UNCHANGED << world_files, runNo, startMtime, touched, prevDone, attempted,
                    handled, curId, readBack >>

\* __init__.py 38-44 for one preset, given what generation reported: the new
\* bundle is attached and appended, made current if the preset is in use, and
\* the old bundles are deleted
AfterGenerate(g, ps, now, failAt) ==
    IF g.exc # None
    THEN [exc |-> g.exc, w |-> g.w, ps |-> ps, step |-> "generate",
          appended |-> ps.bundles]
    ELSE IF g.ret = NoBundle
    THEN [exc |-> None, w |-> g.w, ps |-> ps, step |-> "skip", appended |-> ps.bundles]
    ELSE LET ps1 == [ps EXCEPT !.bundles =
                        Append(@, [g.ret EXCEPT !.preset = ps.name])]
             used == PresetCurrentlyUsed(g.w, ps1)
             mk == IF used.exc = None /\ used.val
                   THEN MakeCurrentlyUsed(g.w, ps1, now)
                   ELSE [exc |-> None, w |-> g.w]
             del == DeleteOldBundles(mk.w, ps1, RetentionKeep, failAt)
         IN  IF used.exc # None
             THEN [exc |-> used.exc, w |-> g.w, ps |-> ps1, step |-> "currently_used",
                   appended |-> ps1.bundles]
             ELSE IF mk.exc # None
             THEN [exc |-> mk.exc, w |-> mk.w, ps |-> ps1,
                   step |-> "make_currently_used", appended |-> ps1.bundles]
             ELSE [exc |-> del.exc, w |-> del.w, ps |-> del.ps,
                   step |-> "delete_old_bundles", appended |-> ps1.bundles]

\* one turn of the loop of __init__.py 37-44; generate_bundle_for_preset(preset,
\* True) binds True to sb_dir
LoopBody ==
    /\ pc = "loop"
    /\ LET p == ScanOrder[cursor + 1]
           last == (cursor + 1 = Len(ScanOrder))
       IN  \E env \in GenCourses :
           LET g == GenerateBundle(World, db[p], NotAPath, TRUE, mtime, hostOsRel,
                                   sbFiles, env)
           IN  \E failAt \in FailPoints(IF g.ret = NoBundle THEN 0
                                        ELSE Len(db[p].bundles) + 1) :
               LET r == AfterGenerate(g, db[p], env.now, failAt)
                   ended == r.exc # None \/ last
               IN  /\ report' = [op |-> "loop body", preset |-> p, exc |-> r.exc,
                                 step |-> r.step, appended |-> r.appended, gen |-> g]
                   /\ disk' = r.w.disk
                   /\ fbdirs' = r.w.fbdirs
                   /\ outdirs' = r.w.outdirs
                   /\ active' = r.w.active
                   /\ db' = [db EXCEPT ![p] = r.ps]
                   /\ handled' = handled \cup {p}
                   /\ attempted' = IF g.attempted THEN attempted \cup {p} ELSE attempted
                   /\ pc' = IF r.exc # None THEN "traceback"
                            ELSE IF last THEN "exit 0" ELSE "loop"
                   /\ cursor' = IF ended THEN cursor ELSE cursor + 1
    /\ UNCHANGED << mtime, hostOsRel, presetFiles, sbFiles, runNo, startMtime,
                    touched, prevDone, curId, readBack >>

Next ==
    \/ StartRun
    \/ \E f \in InputPaths, t \in Times : Touch(f, t)
    \/ InitialiseStep
    \/ LoopBody

Spec == Init /\ [][Next]_vars

-----------------------------------------------------------------------------
(* delete_old_bundles called once on a preset as from_preset catalogued it *)

MaxPruneId == 3
MaxKeep == 4

InitPrune ==
    /\ InputsIdle
    /\ sbFiles = {}
    /\ \E S \in SUBSET (0..MaxPruneId) :
          /\ disk = [p \in Presets |-> IF p = TestPreset THEN BundleDir(p, S)
                                       ELSE EmptyDir]
          /\ \E F \in SUBSET S :
                fbdirs = [p \in Presets |-> IF p = TestPreset THEN F ELSE {}]
          /\ outdirs \in IF S = {} THEN {{}, {TestPreset}} ELSE {{TestPreset}}
    /\ active = NoFile
    /\ db = [p \in Presets |-> NotLoaded]
    /\ ControlIdle
    /\ pc = "prune.catalogue"
    /\ curId = NoId
    /\ readBack = Raised("unread")

\* db.py 173-201: the preset under test is catalogued
PruneCatalogue ==
    /\ pc = "prune.catalogue"
    /\ \E r \in FromPreset(World, TestPreset, presetFiles[TestPreset], "ok") :
          /\ r.exc = None
          /\ db' = [db EXCEPT ![TestPreset] = r.val]
    /\ pc' = "prune.call"
    /\ UNCHANGED << world_files, control, report, curId, readBack >>

\* bundle.py 170-181: delete_old_bundles(preset, k), the file system refusing
\* the call failAt, if any
PruneCall(k, failAt) ==
    /\ pc = "prune.call"
    /\ LET ps == db[TestPreset]
           r == DeleteOldBundles(World, ps, k, failAt)
       IN  /\ report' = [op |-> "delete_old_bundles", keep |-> k, exc |-> r.exc,
                         before |-> ps.bundles]
           /\ disk' = r.w.disk
           /\ fbdirs' = r.w.fbdirs
           /\ outdirs' = r.w.outdirs
           /\ active' = r.w.active
           /\ db' = [db EXCEPT ![TestPreset] = r.ps]
           /\ pc' = IF r.exc = None THEN "prune.returned" ELSE "prune.raised"
    /\ UNCHANGED << mtime, hostOsRel, presetFiles, sbFiles, control, curId, readBack >>

NextPrune ==
    \/ PruneCatalogue
    \/ \E k \in 0..MaxKeep, failAt \in FailPoints(MaxPruneId + 1) : PruneCall(k, failAt)

SpecPrune == InitPrune /\ [][NextPrune]_vars

-----------------------------------------------------------------------------
(* generate_bundle_for_preset called once with a signing directory *)

\* the input files' times: all at 0 but for one, which may be missing
InputSamples ==
    { [g \in InputPaths |-> IF g = f THEN t ELSE 0] :
        f \in InputsOf(TestPreset), t \in Times \cup {NoStat} }

InitGenerate ==
    /\ mtime \in InputSamples
    /\ hostOsRel = GoodHostText
    /\ presetFiles = [p \in Presets |-> GoodDescriptor]
    /\ sbFiles \in SUBSET SbFileNames
    /\ \E S \in SUBSET (0..MaxDiskId) :
          /\ disk = [p \in Presets |-> IF p = TestPreset THEN BundleDir(p, S)
                                       ELSE EmptyDir]
          /\ \E X \in {{}} \cup {{n} : n \in 0..FloorSeconds(MaxTime)} :
                fbdirs = [p \in Presets |-> IF p = TestPreset THEN S \cup X ELSE {}]
          /\ outdirs \in IF S = {} THEN {{}, {TestPreset}} ELSE {{TestPreset}}
    /\ active = NoFile
    /\ db = [p \in Presets |-> NotLoaded]
    /\ ControlIdle
    /\ pc = "generate.catalogue"
    /\ curId = NoId
    /\ readBack = Raised("unread")

\* db.py 173-201: the preset under test is catalogued
GenerateCatalogue ==
    /\ pc = "generate.catalogue"
    /\ \E r \in FromPreset(World, TestPreset, presetFiles[TestPreset], "ok") :
          /\ r.exc = None
          /\ db' = [db EXCEPT ![TestPreset] = r.val]
    /\ pc' = "generate.call"
    /\ UNCHANGED << world_files, control, report, curId, readBack >>

\* bundle.py 20-123: generate_bundle_for_preset(preset, SbDir, fall)
GenerateCall(fall, env) ==
    /\ pc = "generate.call"
    /\ LET g == GenerateBundle(World, db[TestPreset], SbDir, fall, mtime, hostOsRel,
                               sbFiles, env)
       IN  /\ report' = g
           /\ disk' = g.w.disk
           /\ fbdirs' = g.w.fbdirs
           /\ outdirs' = g.w.outdirs
           /\ active' = g.w.active
           /\ pc' = IF g.exc = None THEN "generate.returned" ELSE "generate.raised"
    /\ UNCHANGED << mtime, hostOsRel, presetFiles, sbFiles, db, control, curId,
                    readBack >>

NextGenerate ==
    \/ GenerateCatalogue
    \/ \E fall \in BOOLEAN, env \in GenCourses : GenerateCall(fall, env)

SpecGenerate == InitGenerate /\ [][NextGenerate]_vars

-----------------------------------------------------------------------------
(* The "bundle" command on one preset, run again and again, as lines 37-44 of *)
(* __init__.py go for a caller that hands over a signing directory            *)

\* files that may lie at <root>/kernel.efi without being a copy of a bundle:
\* one with the size and time of a bundle, one of another size
OtherImages ==
    { [bytes |-> << "other", 0 >>, mtime |-> 0, osrel |-> NoSection],
      [bytes |-> << "other" >>, mtime |-> 0, osrel |-> NoSection] }

InitPipeline ==
    /\ mtime = [f \in InputPaths |-> 0]
    /\ hostOsRel = GoodHostText
    /\ presetFiles = [p \in Presets |-> GoodDescriptor]
    /\ sbFiles \in {{}, SbFileNames}
    /\ \E S \in {0..(k - 1) : k \in 0..RetentionKeep} :
          /\ disk = [p \in Presets |-> IF p = TestPreset THEN BundleDir(p, S)
                                       ELSE EmptyDir]
          /\ fbdirs = [p \in Presets |-> IF p = TestPreset THEN S ELSE {}]
          /\ outdirs = IF S = {} THEN {} ELSE {TestPreset}
          /\ active \in {NoFile} \cup OtherImages
                          \cup {BundleDir(TestPreset, S)[n] : n \in S}
    /\ db = [p \in Presets |-> NotLoaded]
    /\ ControlIdle
    /\ pc = "pipeline.shell"
    /\ curId = NoId
    /\ readBack = Raised("unread")

\* the input files that are modified between runs: one of the preset's own,
\* one shared by all presets
TouchedFiles == {PathInitramfs(TestPreset), CMDLINE_FILE}

\* between two runs a file is modified; the present moment is later than
\* every time a file carries
PipelineTouch(f, t) ==
    /\ pc = "pipeline.shell"
    /\ t > Max({mtime[g] : g \in InputsOf(TestPreset)})
    /\ mtime' = [mtime EXCEPT ![f] = t]
    /\ UNCHANGED << hostOsRel, presetFiles, sbFiles, disk, fbdirs, outdirs, active,
                    db, pc, control, report, curId, readBack >>

\* __init__.py 19, db.py 173-218: the command is started and the preset
\* catalogued; a traceback ends the observation
PipelineCatalogue ==
    /\ pc = "pipeline.shell"
    /\ \E dump \in DumpOutcomes :
       \E r \in FromPreset(World, TestPreset, presetFiles[TestPreset], dump) :
          /\ report' = [op |-> "from_preset", preset |-> TestPreset, exc |-> r.exc,
                        tmpMade |-> FromPresetScratch(World, TestPreset).made,
                        tmpLeft |-> FromPresetScratch(World, TestPreset).left]
          /\ db' = [p \in Presets |->
                      IF p = TestPreset /\ r.exc = None THEN r.val ELSE NotLoaded]
          /\ pc' = IF r.exc = None THEN "pipeline.loop" ELSE "pipeline.traceback"
    /\ UNCHANGED << world_files, control, curId, readBack >>

\* the courses of GenCourses, one for each way the two images are told apart
PipelineCourses ==
    { e \in GenCourses : /\ e.ucode \in {"application/octet-stream", "exit-1"}
                         /\ e.initramfs \in {"application/octet-stream", "text/plain"} }

\* __init__.py 38-44 for the preset, sb_dir being a directory
PipelineBody ==
    /\ pc = "pipeline.loop"
    /\ \E env \in PipelineCourses :
       LET ps == db[TestPreset]
           g == GenerateBundle(World, ps, SbDir, TRUE, mtime, hostOsRel, sbFiles, env)
       IN  \E failAt \in FailPoints(IF g.ret = NoBundle THEN 0
                                    ELSE Len(ps.bundles) + 1) :
           LET r == AfterGenerate(g, ps, env.now, failAt)
           IN  /\ report' = [op |-> "loop body", preset |-> TestPreset, exc |-> r.exc,
                             step |-> r.step, appended |-> r.appended, gen |-> g]
               /\ disk' = r.w.disk
               /\ fbdirs' = r.w.fbdirs
               /\ outdirs' = r.w.outdirs
               /\ active' = r.w.active
               /\ db' = [db EXCEPT ![TestPreset] = r.ps]
               /\ pc' = IF r.exc = None THEN "pipeline.shell" ELSE "pipeline.traceback"
    /\ UNCHANGED << mtime, hostOsRel, presetFiles, sbFiles, control, curId, readBack >>

NextPipeline ==
    \/ \E f \in TouchedFiles, t \in Times : PipelineTouch(f, t)
    \/ PipelineCatalogue
    \/ PipelineBody

SpecPipeline == InitPipeline /\ [][NextPipeline]_vars

-----------------------------------------------------------------------------
(* Claims *)

Min(a, b) == IF a <= b THEN a ELSE b
IdsOf(bundles) == {bundles[i].build_id : i \in 1..Len(bundles)}
NamesOf(bundles) == {bundles[i].name : i \in 1..Len(bundles)}

\* C1: for every keep count k >= 0, after delete_old_bundles(preset, k) returns
\* the preset lists min(number before, k) bundles, they are the ones with the
\* highest build identifiers, and the file and the fallback directory of every
\* other bundle are gone from the disk.
C1_Retention ==
    pc = "prune.returned" =>
        LET before == report.before
            kept == db[TestPreset].bundles
            n == Min(Len(before), report.keep)
        IN  /\ Len(kept) = n
            /\ Cardinality(IdsOf(kept)) = n
            /\ IdsOf(kept) \subseteq IdsOf(before)
            /\ \A i \in IdsOf(kept), j \in IdsOf(before) \ IdsOf(kept) : i > j
            /\ \A j \in NamesOf(before) \ NamesOf(kept) :
                  /\ j \notin DOMAIN disk[TestPreset]
                  /\ j \notin fbdirs[TestPreset]

\* C1 for the keep counts k >= 1 only
C1_RetentionKeepPositive ==
    (pc = "prune.returned" /\ report.keep >= 1) => C1_Retention

\* C2: a run that follows a completed run with no tracked input file changed in
\* between starts no generation for any preset; generation is started only for
\* a preset without bundles or with a computed identifier strictly greater than
\* its last one, and with equal identifiers the call returns None and leaves
\* the disk as it was.
C2_Idempotent ==
    /\ (runNo >= 2 /\ prevDone /\ ~touched) =>
          /\ attempted = {}
          /\ report.op = "loop body" =>
                /\ report.gen.ret = NoBundle
                /\ report.gen.tools = << >>
                /\ report.gen.w = report.gen.before
    /\ report.op = "loop body" =>
          LET g == report.gen
          IN  /\ g.attempted => (g.last = NoId \/ g.cur > g.last)
              /\ (g.cur # NoId /\ g.last # NoId /\ g.cur = g.last) =>
                    /\ ~g.attempted
                    /\ g.exc = None
                    /\ g.ret = NoBundle
                    /\ g.w = g.before

\* C2 witness: the second of two runs with unchanged inputs has ended, and the
\* last preset was skipped with equal identifiers.
C2_Witness ==
    /\ pc = "exit 0"
    /\ runNo = 2
    /\ prevDone
    /\ ~touched
    /\ mtime = startMtime
    /\ handled = Presets
    /\ report.op = "loop body"
    /\ report.gen.cur = report.gen.last

\* C3: when the loop body fails for one preset, every other discovered preset
\* is still processed before the run ends.
C3_FailureIsolation ==
    (pc \in {"traceback", "exit 0"} /\ report.op = "loop body") => handled = Presets

\* C4: when a deletion fails partway through delete_old_bundles, the preset
\* afterwards lists exactly the bundles whose files are still on the disk.
C4_CompleteOrReported ==
    pc = "prune.raised" =>
        NamesOf(db[TestPreset].bundles) = DOMAIN disk[TestPreset]

\* C5: when generate_bundle_for_preset fails on a tool (file, objcopy, sbsign)
\* or on an unsupported image type, no file is at kernel-<id>.efi afterwards,
\* an unsupported type stops the call before objcopy is run, and the output
\* directory never holds anything but complete images.
C5_NoPartialOutput ==
    /\ (pc = "generate.raised" /\ report.stage \in {"mime", "objcopy", "sign"}
          /\ report.exc \in {"CalledProcessError", "Exception"}) =>
          /\ report.cur \notin DOMAIN disk[TestPreset]
          /\ report.stage = "mime" => report.tools \in {<< "file" >>, << "file", "file" >>}
    /\ pc \in {"generate.returned", "generate.raised"} =>
          \A n \in DOMAIN disk[TestPreset] :
              disk[TestPreset][n] # PartialFile(TestPreset, n, disk[TestPreset][n].mtime)

C7_RoundTrip == pc = "osrel.done" => readBack = Returned(curId)

\* C8: a bundle whose identifier cannot be read, or a descriptor without a
\* required key, costs only that bundle or that preset: once initialise has
\* ended, every preset with a complete descriptor is catalogued with all of its
\* readable bundles.
DescriptorComplete(p) ==
    {<< "ALL_kver" >>, << "default_image" >>} \subseteq DOMAIN envfile_to_params(presetFiles[p])

C8_DiscoveryIsolation ==
    (runNo >= 1 /\ pc \in {"loop", "traceback", "exit 0"}) =>
        \A p \in Presets : DescriptorComplete(p) =>
            /\ db[p] # NotLoaded
            /\ \A n \in DOMAIN disk[p] :
                  FromBundle(disk[p], n, "ok").exc = None => n \in NamesOf(db[p].bundles)

\* C9: currently_used of a bundle with an owning preset is true exactly when
\* kernel.efi exists and has the bundle's bytes, whatever the sizes and times.
C9_ByContent ==
    (pc = "cmp.done" /\ report.preset # None) =>
        /\ report.ret.exc = None
        /\ report.ret.val <=>
               (active # NoFile /\ active.bytes = disk[TestPreset][0].bytes)

\* C10: once the sections are embedded, the signing step does not make the
\* generation fail: kernel-<id>.efi is written, by sbsign exactly when db.key
\* and db.crt both exist, and otherwise as a copy of the unsigned image with
\* a warning.
C10_SigningNeverFatal ==
    (report.op = "loop body" /\ report.gen.embedded) =>
        LET g == report.gen
            both == SbFileNames \subseteq g.keys
            made == g.w.disk[g.preset]
        IN  /\ g.stage # "sign"
            /\ g.cur \in DOMAIN made
            /\ both <=> (\E i \in DOMAIN g.tools : g.tools[i] = "sbsign")
            /\ both => made[g.cur] = SignedFile(g.preset, g.cur, hostOsRel, made[g.cur].mtime)
            /\ ~both => /\ g.warned
                        /\ made[g.cur] =
                             NewBundleFile(g.preset, g.cur, hostOsRel, made[g.cur].mtime)

\* C10 for a caller that hands over a signing directory holding db.key and
\* db.crt: a run of sbsign does not make the generation fail.
C10_SbsignFailureNotFatal ==
    (report.op = "generate" /\ report.embedded
        /\ \E i \in DOMAIN report.tools : report.tools[i] = "sbsign") =>
        /\ report.exc = None
        /\ report.cur \in DOMAIN disk[report.preset]

\* C11: for every discovered preset the loop body generates, then makes
\* current where appropriate, then deletes all but the newest 3 bundles, also
\* for a preset skipped as up to date; so after a run that ends without error
\* no preset has more than 3 bundles.
C11_RetentionEveryPreset ==
    /\ (report.op = "loop body" /\ report.exc = None) =>
          report.step = "delete_old_bundles"
    /\ pc = "exit 0" =>
          \A p \in Presets :
              /\ Len(db[p].bundles) <= RetentionKeep
              /\ Cardinality(DOMAIN disk[p]) <= RetentionKeep

\* C11, its consequence alone: no preset has more than 3 bundles after a run
\* that ends without error.
C11_AtMostKeepAfterRun ==
    pc = "exit 0" => \A p \in Presets : Len(db[p].bundles) <= RetentionKeep

\* C12: when one of the four input files does not exist, the call of
\* generate_bundle_for_preset raises FileNotFoundError before any side effect:
\* no scratch file, no tool run, no output directory made, nothing written.
C12_MissingInputFailsEarly ==
    (pc \in {"generate.returned", "generate.raised"}
        /\ \E f \in InputsOf(TestPreset) : mtime[f] = NoStat) =>
        /\ pc = "generate.raised"
        /\ report.exc = "FileNotFoundError"
        /\ report.tmpMade = {}
        /\ report.tools = << >>
        /\ World = report.before

\* C12 witness: the command-line file is missing, the preset has no output
\* directory yet, and the call has raised.
C12_Witness ==
    /\ pc = "generate.raised"
    /\ mtime[CMDLINE_FILE] = NoStat
    /\ mtime[PathKernel(TestPreset)] # NoStat
    /\ report.exc = "FileNotFoundError"
    /\ TestPreset \notin outdirs

\* C13: in every state of a run, after discovery, after the append and after
\* pruning, each preset's list is sorted ascending by build identifier and its
\* last element carries last_build_id.
Ascending(bundles) ==
    \A i, j \in 1..Len(bundles) : i < j => bundles[i].build_id <= bundles[j].build_id

NewestLast(bundles) ==
    Len(bundles) > 0 =>
        bundles[Len(bundles)].build_id = Max(IdsOf(bundles))

C13_Ordered ==
    /\ \A p \in Presets : db[p] # NotLoaded =>
          /\ Ascending(db[p].bundles)
          /\ NewestLast(db[p].bundles)
          /\ Len(db[p].bundles) > 0 =>
                db[p].bundles[Len(db[p].bundles)].build_id = LastBuildId(db[p])
    /\ report.op = "loop body" =>
          /\ Ascending(report.appended)
          /\ NewestLast(report.appended)

\* C13 witness: after the initramfs was touched, a run has appended a bundle
\* to a preset that had three older ones, and pruning has deleted the oldest.
C13_Witness ==
    /\ pc = "pipeline.shell"
    /\ report.op = "loop body"
    /\ report.step = "delete_old_bundles"
    /\ mtime[PathInitramfs(TestPreset)] > 0
    /\ Len(report.appended) = RetentionKeep + 1
    /\ Len(db[TestPreset].bundles) = RetentionKeep
    /\ db[TestPreset].bundles[Len(db[TestPreset].bundles)].build_id = report.gen.cur
    /\ db[TestPreset].bundles[1].build_id < report.gen.cur

\* C14: every scratch file made by generate_bundle_for_preset (command line,
\* os-release, initramfs, unsigned bundle) and by from_bundle (section dump) is
\* gone when the call ends, whether it returned, a tool failed or an image
\* type was not supported.
C14_ScratchReleased ==
    /\ report.op = "from_preset" => report.tmpLeft = {}
    /\ report.op = "loop body" =>
          /\ report.gen.tmpLeft = {}
          /\ report.gen.attempted => report.gen.tmpMade = ScratchFiles

\* C14 witness: objcopy failed after the four scratch files were made.
C14_Witness ==
    /\ pc = "pipeline.traceback"
    /\ report.op = "loop body"
    /\ report.gen.stage = "objcopy"
    /\ report.gen.exc = "CalledProcessError"
    /\ report.gen.tmpMade = ScratchFiles
    /\ report.gen.tmpLeft = {}

\* C14, further exits: the initramfs type was not supported; the call
\* returned a bundle; a section dump failed during discovery.
C14_WitnessUnsupported ==
    /\ report.op = "loop body"
    /\ report.gen.exc = "Exception"
    /\ report.gen.tmpMade = ScratchFiles

C14_WitnessReturned ==
    /\ report.op = "loop body"
    /\ report.gen.stage = "done"
    /\ report.gen.tmpMade = ScratchFiles

C14_WitnessDumpFailed ==
    /\ report.op = "from_preset"
    /\ report.exc = "CalledProcessError"
    /\ report.tmpMade # {}

\* the loop body generated a bundle for the preset and went through
Processed == report.op = "loop body" /\ report.exc = None /\ report.gen.ret # NoBundle

\* kernel.efi as it was before the body, and the preset's bundle files once
\* the new one was written
ActiveBefore == report.gen.before.active
FilesAfterGenerate == report.gen.w.disk[report.preset]

C15_ActiveFollowsNewestShallow ==
    Processed =>
        LET p == report.preset
            kept == db[p].bundles
            newest == kept[Len(kept)]
            matched == /\ ActiveBefore # NoFile
                       /\ \E n \in DOMAIN FilesAfterGenerate :
                             FileCmp(ActiveBefore, FilesAfterGenerate[n])
        IN  /\ matched =>
                  /\ newest.build_id = report.gen.cur
                  /\ newest.name \in DOMAIN disk[p]
                  /\ active # NoFile
                  /\ active.bytes = disk[p][newest.name].bytes
                  /\ PresetCurrentlyUsed(World, db[p]) = Returned(TRUE)
            /\ ~matched => active = ActiveBefore

\* C16: however generate_bundle_for_preset ends (skipped, returned, failed at
\* any step, the fallback step included), the bundle files in the preset's
\* directory are those of the bundles in preset.bundles together with the
\* bundle the call returns for the append: no new file is left at the
\* destination without its bundle being returned.
C16_CatalogMatchesDisk ==
    pc \in {"generate.returned", "generate.raised"} =>
        DOMAIN disk[TestPreset] =
            NamesOf(db[TestPreset].bundles)
               \cup (IF report.ret # NoBundle THEN {report.ret.name} ELSE {})

\* C16 for the fallback step alone: a failure of generate_fallback_for_preset
\* leaves no bundle file that the caller is not told of.
C16_FallbackFailureLeavesNoFile ==
    (pc = "generate.raised" /\ report.stage = "fallback") =>
        DOMAIN disk[TestPreset] = NamesOf(db[TestPreset].bundles)

\* C16 at the end of the loop body of main(), sb_dir being a directory
C16_CatalogMatchesDiskAfterBody ==
    report.op = "loop body" =>
        DOMAIN disk[report.preset] = NamesOf(db[report.preset].bundles)

=============================================================================
